---- MODULE Spec2Model ----
(***************************************************************************)
(* A model of python/nwgeom_out2xyz.py: the extraction of geometries from  *)
(* NWChem output files and the three ways of writing them as XYZ files.    *)
(*                                                                         *)
(* Strings that the program takes apart or builds (paths, file names) are  *)
(* sequences of one-character strings.  An input line is the sequence of   *)
(* its whitespace-separated tokens, so line.split() is the line itself and *)
(* a blank line is << >>.  An output line is a sequence of strings whose   *)
(* concatenation is the text written before the newline.                   *)
(***************************************************************************)
EXTENDS Integers, Sequences, FiniteSets, TLC

VARIABLES
    files,        \* args["nwofilenames"]
    prefix,       \* args["prefix"], read at line 221
    pc,           \* position of the script
    fi,           \* number of input files opened so far by run_extractor
    openFiles,    \* the file objects that are open: [mode, name]
    nread,        \* lines delivered to the running run_extractor so far
    eof,          \* the open input file has reported end of stream
    hist,         \* lines delivered by the open input file (history)
    marks,        \* one entry for each marker line detected in the open
                  \* input file: its line number where the history of the
                  \* lines is kept, and else 0 (history)
    offsets,      \* for each input file opened, the length of the list of
                  \* geometries at that moment (history)
    invalid,      \* the number of the input file in which a coordinate line
                  \* of neither 0 nor 6 tokens was read, 0 if none (history)
    count,        \* append_geometries: count
    num,          \* skip_lines: num
    units,        \* append_geometries: units
    coords,       \* Geometry.__init__: self.coords under construction
    geometries,   \* the list of Geometry objects
    gi,           \* number of geometries taken by the running writer loop
    oldfilename,  \* write_together: oldfilename
    filename,     \* the writers' filename
    fs,           \* the output files: name -> sequence of lines
    wrote,        \* records written through the open output file object
    ran,          \* the writer functions that have been called
    path,         \* SpecBasename: the argument of get_basename
    basename,     \* SpecBasename: the value get_basename returned
    obj,          \* SpecGeometry: a Geometry object
    buf           \* SpecGeometry: the lines written to fp

vars == << files, prefix, pc, fi, openFiles, nread, eof, hist, marks,
           offsets, invalid, count, num, units, coords, geometries, gi, oldfilename, filename, fs,
           wrote, ran, path, basename, obj, buf >>

----------------------------------------------------------------------------
(* Bounds of the model *)

\* lines the input files deliver in one run, all files together
MaxLines == 6
\* input file names on the command line
MaxFiles == 3
\* characters of a path given to get_basename
MaxPath == 4
\* atoms of a Geometry object handed to Geometry.write
MaxAtoms == 2

----------------------------------------------------------------------------
(* Strings *)

RECURSIVE SplitFrom(_, _, _)
\* str.split(sep) for a one-character sep, on the part of s from position i on,
\* the segment being collected before position i given as acc
SplitFrom(s, sep, acc) ==
    IF s = << >> THEN << acc >>
    ELSE IF Head(s) = sep THEN << acc >> \o SplitFrom(Tail(s), sep, << >>)
    ELSE SplitFrom(Tail(s), sep, Append(acc, Head(s)))

\* str.split(sep): the segments between the occurrences of sep; never empty
Split(s, sep) == SplitFrom(s, sep, << >>)

\* get_basename truncating at the last "." in place of the first
get_basename_lastdot(fname) ==
    LET p == Split(fname, "/")
        b == Split(p[Len(p)], ".")
    IN  IF Len(b) = 1 THEN b[1]
        ELSE LET n == Len(p[Len(p)]) - Len(b[Len(b)]) - 1
             IN  SubSeq(p[Len(p)], 1, n)

get_basename(fname) ==
    LET p == Split(fname, "/")
        b == Split(p[Len(p)], ".")
    IN  b[1]

RECURSIVE DecStr(_)
\* the decimal digits of a natural number, as f"{n}" renders it
DecStr(n) ==
    LET d == << "0", "1", "2", "3", "4", "5", "6", "7", "8", "9" >>
    IN  IF n < 10 THEN << d[n + 1] >>
        ELSE Append(DecStr(n \div 10), d[(n % 10) + 1])

RECURSIVE ZeroPad(_, _)
\* s filled with "0" on the left up to width w
ZeroPad(s, w) == IF Len(s) >= w THEN s ELSE ZeroPad(<< "0" >> \o s, w)

\* f"{number:04d}"
Format04d(number) == ZeroPad(DecStr(number), 4)

\* the string ".xyz"
DotXyz == << ".", "x", "y", "z" >>

----------------------------------------------------------------------------
(* Input lines *)

AngstromsMarker == << "Output", "coordinates", "in", "angstroms" >>
AuMarker == << "Output", "coordinates", "in", "a.u." >>

\* line.strip().startswith(marker), on token sequences
StartsWith(line, marker) ==
    /\ Len(line) >= Len(marker)
    /\ SubSeq(line, 1, Len(marker)) = marker

\* the lines an input file may deliver: the two marker lines, an empty line,
\* two atom lines, the table header of NWChem (6 tokens that are no numbers)
\* and its rule (1 token)
LiLine == << "1", "Li", "3.0", "1.0", "2.0", "3.0" >>
HLine == << "2", "H", "1.0", "0.0", "0.0", "1.0" >>
HeaderLine == << "No.", "Tag", "Charge", "X", "Y", "Z" >>
RuleLine == << "----" >>
Lines ==
    { AngstromsMarker, AuMarker, << >>, LiLine, HLine, HeaderLine, RuleLine }

\* the lines the input files deliver where the whole script runs: the same
\* with one atom line, the order of the atoms being the matter of SpecScan
ScriptLines == Lines \ { HLine }

\* the tokens float() accepts
IsFloat(t) == t \in { "0.0", "1.0", "2.0", "3.0" }

\* f"{float(t)*fac}" for the fac that Geometry.__init__ derives from units:
\* 1.0/1.889725989 for "au", 1.0 for "angstrom", 10 for "nm"
Scaled(t, u) ==
    CASE u = "angstrom" -> t
      [] u = "au" ->
            ( CASE t = "0.0" -> "0.0"
                [] t = "1.0" -> "0.5291772488820865"
                [] t = "2.0" -> "1.058354497764173"
                [] t = "3.0" -> "1.5875317466462595" )
      [] u = "nm" ->
            ( CASE t = "0.0" -> "0.0"
                [] t = "1.0" -> "10.0"
                [] t = "2.0" -> "20.0"
                [] t = "3.0" -> "30.0" )

KnownUnits == { "au", "angstrom", "nm" }

\* atom = f"{tokens[1]} {xx} {yy} {zz}" of a 6-token line
Atom(tokens, u) ==
    << tokens[2], " ", Scaled(tokens[4], u), " ", Scaled(tokens[5], u), " ",
       Scaled(tokens[6], u) >>

----------------------------------------------------------------------------
(* Geometry *)

\* an attribute that is None is << >>, one that holds s is << s >>
None == << >>

\* the object Geometry.__init__ leaves once its loop has ended
Geometry(source, cnt, crds) ==
    [ source |-> source, count |-> cnt, coords |-> crds,
      section |-> None, lattice |-> None ]

\* the truth value Python gives an attribute holding None or a string
Truthy(attr) == attr # None /\ attr[1] # ""

\* Geometry.write writing the extended comment whenever lattice is not None
Geometry_write_notnone(g) ==
    LET natoms == Len(g.coords)
        comment == IF g.lattice # None
                   THEN << "Lattice=", g.lattice[1],
                           " Properties=species:S:1:pos:R:3" >>
                   ELSE << >>
    IN  << DecStr(natoms), comment >> \o g.coords

\* Geometry.write: the lines it writes to fp, in order
Geometry_write(g) ==
    LET natoms == Len(g.coords)
        comment == IF Truthy(g.lattice)
                   THEN << "Lattice=", g.lattice[1],
                           " Properties=species:S:1:pos:R:3" >>
                   ELSE << >>
    IN  << DecStr(natoms), comment >> \o g.coords

----------------------------------------------------------------------------
(* The command line and the file system *)

\* the input file names: "d/x.o", "y" and "x.l.g"; the first and the last
\* have the same base name
FileA == << "d", "/", "x", ".", "o" >>
FileB == << "y" >>
FileC == << "x", ".", "l", ".", "g" >>
Names == { FileA, FileB, FileC }

\* the values of --prefix: "" (the default) and "p_"
Prefixes == { << >>, << "p", "_" >> }

\* the command lines: nargs="+" asks for one file name at least
FileLists == UNION { [1..n -> Names] : n \in 1..MaxFiles }

\* the content of a file some earlier run left behind
Stale == << << "stale" >> >>

\* the output files that exist when the script starts: ".xyz", "x.xyz" and
\* "x_0001.xyz", left behind by an earlier run without --prefix
InitialFS ==
    [ n \in { DotXyz, << "x" >> \o DotXyz,
              << "x", "_", "0", "0", "0", "1" >> \o DotXyz } |-> Stale ]

\* the files after open(name, "w"): name exists and is empty
OpenW(f, name) ==
    [ n \in DOMAIN f \cup { name } |-> IF n = name THEN << >> ELSE f[n] ]

\* the files after open(name, "a"): name exists, with the content it had
OpenA(f, name) ==
    [ n \in DOMAIN f \cup { name } |-> IF n \in DOMAIN f THEN f[n] ELSE << >> ]

\* the files after geometry.write(fp) on the open file name
WriteTo(f, name, g) == [ f EXCEPT ![name] = @ \o Geometry_write(g) ]

----------------------------------------------------------------------------
(* run_extractor, append_geometries, skip_lines, Geometry.__init__ *)

\* An input file is a stream that delivers its lines one at a time: at each
\* read it either delivers some line of Lines or reports the end of the
\* stream, and after that it delivers nothing.  The lines are not chosen in
\* advance, so every content of the files is covered that has MaxLines
\* lines at most, all the files of a run together; a file named twice is
\* read afresh the second time.

\* the variables the extraction leaves alone
writerVars == << prefix, gi, oldfilename, filename, fs, wrote, ran >>
otherVars == << path, basename, obj, buf >>

\* the open input file can deliver one more line
CanDeliver == ~eof /\ nread < MaxLines

\* the open input file delivers line l; rec says whether the history is kept
Deliver(l, rec) ==
    /\ CanDeliver
    /\ l \in IF rec THEN Lines ELSE ScriptLines
    /\ nread' = nread + 1
    /\ hist' = IF rec THEN Append(hist, l) ELSE hist
    /\ eof' = eof

\* the open input file has no further line
EndOfStream ==
    /\ eof' = TRUE
    /\ UNCHANGED << nread, hist >>

\* the file object of the i-th input file
InputFile(i) == [ mode |-> "r", name |-> files[i] ]

\* the end of a with block that leaves the file object f open
CloseFile_leak(f) == openFiles

\* the end of a with block: the file object f is closed
CloseFile(f) == openFiles \ { f }

\* append_geometries going on with the count of the file before
InitialCount_kept == count

\* append_geometries: count = 0
InitialCount == 0

\* skip_lines(fp,2)
SkipCount_two == 3 - 1

\* skip_lines(fp,3): the lines skipped after a marker line
SkipCount == 3

\* run_extractor: "for file in files" has a next file; it is opened and
\* append_geometries starts on it with count = 0
OpenInput ==
    /\ pc = "for_file"
    /\ fi < Len(files)
    /\ fi' = fi + 1
    /\ openFiles' = openFiles \cup { InputFile(fi + 1) }
    /\ count' = InitialCount
    /\ eof' = FALSE
    /\ hist' = << >>
    /\ marks' = << >>
    /\ offsets' = Append(offsets, Len(geometries))
    /\ pc' = "scan"
    /\ UNCHANGED << files, nread, num, units, coords, geometries, invalid >>
    /\ UNCHANGED << writerVars, otherVars >>

\* run_extractor: the list of files is exhausted, the geometries are
\* returned; nothing is read from now on
ExtractorReturn ==
    /\ pc = "for_file"
    /\ fi = Len(files)
    /\ pc' = "prefix"
    /\ nread' = 0
    /\ UNCHANGED << files, fi, openFiles, eof, hist, marks, count, num, units,
                    coords, geometries, offsets, invalid >>
    /\ UNCHANGED << writerVars, otherVars >>

\* append_geometries, a marker line: count += 1, units, then skip_lines(fp,3)
ScanMarker(rec, marker, u) ==
    /\ pc = "scan"
    /\ \E l \in Lines :
          /\ Deliver(l, rec)
          /\ StartsWith(l, marker)
          /\ marks' = Append(marks, IF rec THEN Len(hist) + 1 ELSE 0)
    /\ count' = count + 1
    /\ units' = u
    /\ num' = SkipCount
    /\ pc' = "skip"
    /\ UNCHANGED << files, fi, openFiles, coords, geometries >>
    /\ UNCHANGED << offsets, invalid >>
    /\ UNCHANGED << writerVars, otherVars >>

\* append_geometries: the line starts with "Output coordinates in angstroms"
ScanAngstroms(rec) == ScanMarker(rec, AngstromsMarker, "angstrom")

\* append_geometries: the line starts with "Output coordinates in a.u."
ScanAu(rec) == ScanMarker(rec, AuMarker, "au")

\* append_geometries: any other line is passed over
ScanOther(rec) ==
    /\ pc = "scan"
    /\ \E l \in Lines :
          /\ Deliver(l, rec)
          /\ ~StartsWith(l, AngstromsMarker)
          /\ ~StartsWith(l, AuMarker)
    /\ UNCHANGED << files, pc, fi, openFiles, marks, count, num, units, coords,
                    geometries >>
    /\ UNCHANGED << offsets, invalid >>
    /\ UNCHANGED << writerVars, otherVars >>

\* append_geometries: the stream has ended; geom_in is returned, which ends
\* the life of units, and the with block of run_extractor closes the file
ScanEnd ==
    /\ pc = "scan"
    /\ EndOfStream
    /\ openFiles' = CloseFile(InputFile(fi))
    /\ units' = "angstrom"
    /\ pc' = "for_file"
    /\ UNCHANGED << files, fi, marks, count, num, coords, geometries >>
    /\ UNCHANGED << offsets, invalid >>
    /\ UNCHANGED << writerVars, otherVars >>

\* skip_lines: one fp.readline(), whose result is dropped; at the end of the
\* stream readline returns "" and the loop goes on
SkipLine(rec) ==
    /\ pc = "skip"
    /\ num > 0
    /\ \/ \E l \in Lines : Deliver(l, rec)
       \/ EndOfStream
    /\ num' = num - 1
    /\ UNCHANGED << files, pc, fi, openFiles, marks, count, units, coords,
                    geometries >>
    /\ UNCHANGED << offsets, invalid >>
    /\ UNCHANGED << writerVars, otherVars >>

\* Geometry.__init__ up to its loop: the attributes are set and fac is chosen
\* from units; units outside the three known ones end the program
GeometryInit ==
    /\ pc = "skip"
    /\ num = 0
    /\ coords' = << >>
    /\ IF units \in KnownUnits
       THEN pc' = "block" /\ openFiles' = openFiles
       ELSE pc' = "sys.exit" /\ openFiles' = CloseFile(InputFile(fi))
    /\ UNCHANGED << files, fi, nread, eof, hist, marks, count, num, units,
                    geometries >>
    /\ UNCHANGED << offsets, invalid >>
    /\ UNCHANGED << writerVars, otherVars >>

\* Geometry.__init__: a line of 6 tokens whose last three are numbers
BlockAtom(rec) ==
    /\ pc = "block"
    /\ \E l \in Lines :
          /\ Deliver(l, rec)
          /\ Len(l) = 6
          /\ IsFloat(l[4]) /\ IsFloat(l[5]) /\ IsFloat(l[6])
          /\ coords' = Append(coords, Atom(l, units))
    /\ UNCHANGED << files, pc, fi, openFiles, marks, count, num, units,
                    geometries >>
    /\ UNCHANGED << offsets, invalid >>
    /\ UNCHANGED << writerVars, otherVars >>

\* Geometry.__init__ has ended: append_geometries appends the object, which
\* holds the coords from now on
GeometryDone ==
    /\ geometries' = Append(geometries, Geometry(files[fi], count, coords))
    /\ coords' = << >>
    /\ pc' = "scan"

\* Geometry.__init__: an empty line ends the geometry
BlockBlank(rec) ==
    /\ pc = "block"
    /\ \E l \in Lines : Deliver(l, rec) /\ Len(l) = 0
    /\ GeometryDone
    /\ UNCHANGED << files, fi, openFiles, marks, count, num, units >>
    /\ UNCHANGED << offsets, invalid >>
    /\ UNCHANGED << writerVars, otherVars >>

\* Geometry.__init__: the stream has ended, which ends the geometry too
BlockEnd ==
    /\ pc = "block"
    /\ EndOfStream
    /\ GeometryDone
    /\ UNCHANGED << files, fi, openFiles, marks, count, num, units >>
    /\ UNCHANGED << offsets, invalid >>
    /\ UNCHANGED << writerVars, otherVars >>

\* what follows "Invalid number of tokens for coordinates": a line with a
\* wrong number of tokens that is passed over, the geometry going on
BlockInvalid_continue ==
    /\ pc' = "block"
    /\ openFiles' = openFiles

\* what follows "Invalid number of tokens for coordinates": sys.exit(), which
\* leaves the with block of run_extractor and so closes the input file
BlockInvalid_exit ==
    /\ pc' = "sys.exit"
    /\ openFiles' = CloseFile(InputFile(fi))

\* Geometry.__init__: a line of neither 0 nor 6 tokens
BlockInvalid(rec) ==
    /\ pc = "block"
    /\ \E l \in Lines : Deliver(l, rec) /\ Len(l) \notin { 0, 6 }
    /\ BlockInvalid_exit
    /\ invalid' = fi
    /\ UNCHANGED << files, fi, marks, count, num, units, coords, geometries >>
    /\ UNCHANGED offsets
    /\ UNCHANGED << writerVars, otherVars >>

\* Geometry.__init__: a line of 6 tokens on which float() raises ValueError;
\* nothing catches it
BlockValueError(rec) ==
    /\ pc = "block"
    /\ \E l \in Lines :
          /\ Deliver(l, rec)
          /\ Len(l) = 6
          /\ ~(IsFloat(l[4]) /\ IsFloat(l[5]) /\ IsFloat(l[6]))
    /\ pc' = "ValueError"
    /\ openFiles' = CloseFile(InputFile(fi))
    /\ UNCHANGED << files, fi, marks, count, num, units, coords, geometries >>
    /\ UNCHANGED << offsets, invalid >>
    /\ UNCHANGED << writerVars, otherVars >>

\* the steps of the extraction
Extract(rec) ==
    \/ OpenInput
    \/ ScanAngstroms(rec)
    \/ ScanAu(rec)
    \/ ScanOther(rec)
    \/ ScanEnd
    \/ SkipLine(rec)
    \/ GeometryInit
    \/ BlockAtom(rec)
    \/ BlockBlank(rec)
    \/ BlockEnd
    \/ BlockInvalid(rec)
    \/ BlockValueError(rec)

----------------------------------------------------------------------------
(* The main program and the three writers *)

\* the variables the writers leave alone
extractVars == << files, fi, nread, eof, hist, marks, offsets, invalid,
                  count, num, units, coords, geometries >>

\* line 221: prefix = args["prefix"]
ReadPrefix ==
    /\ pc = "prefix"
    /\ prefix' \in Prefixes
    /\ pc' = "if_separate"
    /\ UNCHANGED << openFiles, gi, oldfilename, filename, fs, wrote, ran >>
    /\ UNCHANGED << extractVars, otherVars >>

\* line 222: args["separate"] is set, write_separate is called
CallSeparate ==
    /\ pc = "if_separate"
    /\ pc' = "separate"
    /\ gi' = 0
    /\ ran' = ran \cup { "separate" }
    /\ UNCHANGED << prefix, openFiles, oldfilename, filename, fs, wrote >>
    /\ UNCHANGED << extractVars, otherVars >>

\* line 222: args["separate"] is not set
SkipSeparate ==
    /\ pc = "if_separate"
    /\ pc' = "if_together"
    /\ UNCHANGED << prefix, openFiles, gi, oldfilename, filename, fs, wrote,
                    ran >>
    /\ UNCHANGED << extractVars, otherVars >>

\* the name write_separate gives the file of geometry g
SeparateName(g) ==
    prefix \o get_basename(g.source) \o << "_" >> \o Format04d(g.count)
           \o DotXyz

\* write_separate: the next geometry; its file is opened with mode "w"
SeparateOpen ==
    /\ pc = "separate"
    /\ gi < Len(geometries)
    /\ gi' = gi + 1
    /\ LET name == SeparateName(geometries[gi + 1])
       IN  /\ filename' = name
           /\ fs' = OpenW(fs, name)
           /\ openFiles' = openFiles \cup { [ mode |-> "w", name |-> name ] }
    /\ wrote' = 0
    /\ pc' = "separate_write"
    /\ UNCHANGED << prefix, oldfilename, ran >>
    /\ UNCHANGED << extractVars, otherVars >>

\* write_separate: geometry.write(fp)
SeparateWrite ==
    /\ pc = "separate_write"
    /\ fs' = WriteTo(fs, filename, geometries[gi])
    /\ wrote' = wrote + 1
    /\ pc' = "separate_close"
    /\ UNCHANGED << prefix, openFiles, gi, oldfilename, filename, ran >>
    /\ UNCHANGED << extractVars, otherVars >>

\* write_separate: the with block ends and closes the file
SeparateClose ==
    /\ pc = "separate_close"
    /\ openFiles' = CloseFile([ mode |-> "w", name |-> filename ])
    /\ pc' = "separate"
    /\ UNCHANGED << prefix, gi, oldfilename, filename, fs, wrote, ran >>
    /\ UNCHANGED << extractVars, otherVars >>

\* write_separate returns
SeparateReturn ==
    /\ pc = "separate"
    /\ gi = Len(geometries)
    /\ pc' = "if_together"
    /\ UNCHANGED << prefix, openFiles, gi, oldfilename, filename, fs, wrote,
                    ran >>
    /\ UNCHANGED << extractVars, otherVars >>

\* line 224: args["together"] is True whatever the command line (default
\* True, action store_true); write_together is called, oldfilename = ""
CallTogether ==
    /\ pc = "if_together"
    /\ pc' = "together"
    /\ gi' = 0
    /\ oldfilename' = << >>
    /\ ran' = ran \cup { "together" }
    /\ UNCHANGED << prefix, openFiles, filename, fs, wrote >>
    /\ UNCHANGED << extractVars, otherVars >>

\* the name write_together gives the file of geometry g
TogetherName(g) == prefix \o get_basename(g.source) \o DotXyz

\* the mode write_together opens name with, always truncating
TogetherMode_truncate(old, name) == "w"

\* the mode write_together opens name with, given oldfilename
TogetherMode(old, name) == IF old = name THEN "a" ELSE "w"

\* write_together: the next geometry; its file is opened with mode "a" when
\* it is the file of the geometry before, and else with mode "w"
TogetherOpen ==
    /\ pc = "together"
    /\ gi < Len(geometries)
    /\ gi' = gi + 1
    /\ LET name == TogetherName(geometries[gi + 1])
           mode == TogetherMode(oldfilename, name)
       IN  /\ filename' = name
           /\ oldfilename' = name
           /\ fs' = IF mode = "a" THEN OpenA(fs, name) ELSE OpenW(fs, name)
           /\ openFiles' = openFiles \cup { [ mode |-> mode, name |-> name ] }
    /\ wrote' = 0
    /\ pc' = "together_write"
    /\ UNCHANGED << prefix, ran >>
    /\ UNCHANGED << extractVars, otherVars >>

\* write_together: geometry.write(fp)
TogetherWrite ==
    /\ pc = "together_write"
    /\ fs' = WriteTo(fs, filename, geometries[gi])
    /\ wrote' = wrote + 1
    /\ pc' = "together_close"
    /\ UNCHANGED << prefix, openFiles, gi, oldfilename, filename, ran >>
    /\ UNCHANGED << extractVars, otherVars >>

\* write_together: the with block ends and closes the file
TogetherClose ==
    /\ pc = "together_close"
    /\ \E f \in openFiles : f.name = filename /\ openFiles' = CloseFile(f)
    /\ pc' = "together"
    /\ UNCHANGED << prefix, gi, oldfilename, filename, fs, wrote, ran >>
    /\ UNCHANGED << extractVars, otherVars >>

\* write_together returns
TogetherReturn ==
    /\ pc = "together"
    /\ gi = Len(geometries)
    /\ pc' = "if_alltogether"
    /\ UNCHANGED << prefix, openFiles, gi, oldfilename, filename, fs, wrote,
                    ran >>
    /\ UNCHANGED << extractVars, otherVars >>

\* the name write_all_together gives its file
AllTogetherName == prefix \o DotXyz

\* write_all_together opening its file with mode "a"
AllTogetherFiles_append(f, name) == OpenA(f, name)

\* the files after write_all_together has opened its file
AllTogetherFiles(f, name) == OpenW(f, name)

\* line 226: args["alltogether"] is set; write_all_together is called and
\* opens its file with mode "w"
CallAllTogether ==
    /\ pc = "if_alltogether"
    /\ gi' = 0
    /\ filename' = AllTogetherName
    /\ fs' = AllTogetherFiles(fs, AllTogetherName)
    /\ openFiles' = openFiles \cup { [ mode |-> "w", name |-> AllTogetherName ] }
    /\ wrote' = 0
    /\ ran' = ran \cup { "alltogether" }
    /\ pc' = "alltogether"
    /\ UNCHANGED << prefix, oldfilename >>
    /\ UNCHANGED << extractVars, otherVars >>

\* line 226: args["alltogether"] is not set; the script ends
SkipAllTogether ==
    /\ pc = "if_alltogether"
    /\ pc' = "done"
    /\ UNCHANGED << prefix, openFiles, gi, oldfilename, filename, fs, wrote,
                    ran >>
    /\ UNCHANGED << extractVars, otherVars >>

\* write_all_together: geometry.write(fp) for the next geometry, the file
\* staying open
AllTogetherWrite ==
    /\ pc = "alltogether"
    /\ gi < Len(geometries)
    /\ gi' = gi + 1
    /\ fs' = WriteTo(fs, filename, geometries[gi + 1])
    /\ wrote' = wrote + 1
    /\ UNCHANGED << prefix, pc, openFiles, oldfilename, filename, ran >>
    /\ UNCHANGED << extractVars, otherVars >>

\* write_all_together: the with block ends and closes the file; the script
\* ends
AllTogetherClose ==
    /\ pc = "alltogether"
    /\ gi = Len(geometries)
    /\ openFiles' = CloseFile([ mode |-> "w", name |-> filename ])
    /\ pc' = "done"
    /\ UNCHANGED << prefix, gi, oldfilename, filename, fs, wrote, ran >>
    /\ UNCHANGED << extractVars, otherVars >>

\* the steps of the main program after run_extractor
Writers ==
    \/ ExtractorReturn
    \/ ReadPrefix
    \/ CallSeparate
    \/ SkipSeparate
    \/ SeparateOpen
    \/ SeparateWrite
    \/ SeparateClose
    \/ SeparateReturn
    \/ CallTogether
    \/ TogetherOpen
    \/ TogetherWrite
    \/ TogetherClose
    \/ TogetherReturn
    \/ CallAllTogether
    \/ SkipAllTogether
    \/ AllTogetherWrite
    \/ AllTogetherClose

\* the script's variables when run_extractor is called (line 220) on the
\* file names fl
Start(fl) ==
    /\ files = fl
    /\ prefix = << >>
    /\ pc = "for_file"
    /\ fi = 0
    /\ openFiles = { }
    /\ nread = 0
    /\ eof = FALSE
    /\ hist = << >>
    /\ marks = << >>
    /\ offsets = << >>
    /\ invalid = 0
    /\ count = 0
    /\ num = 0
    /\ units = "angstrom"
    /\ coords = << >>
    /\ geometries = << >>
    /\ gi = 0
    /\ oldfilename = << >>
    /\ filename = << >>
    /\ fs = InitialFS
    /\ wrote = 0
    /\ ran = { }

\* no call of get_basename or of a Geometry method on its own is under way
NoCall ==
    /\ path = << >>
    /\ basename = << >>
    /\ obj = Geometry(<< >>, 0, << >>)
    /\ buf = << >>

\* the script, from any command line
Init == NoCall /\ \E fl \in FileLists : Start(fl)

Next == Extract(FALSE) \/ Writers

Spec == Init /\ [][Next]_vars

\* the extraction of one input file, with the history of its lines kept
InitScan == NoCall /\ Start(<< FileA >>)

NextScan == Extract(TRUE) \/ ExtractorReturn

SpecScan == InitScan /\ [][NextScan]_vars

----------------------------------------------------------------------------
(* get_basename on its own *)

\* the characters of the paths
PathChars == { "/", ".", "a", "b" }

\* "/a/b/structure.out" and "name.part.xyz"
StructureOut ==
    << "/", "a", "/", "b", "/", "s", "t", "r", "u", "c", "t", "u", "r", "e",
       ".", "o", "u", "t" >>
NamePartXyz ==
    << "n", "a", "m", "e", ".", "p", "a", "r", "t", ".", "x", "y", "z" >>

\* the arguments get_basename is called with
Paths ==
    UNION { [1..n -> PathChars] : n \in 0..MaxPath }
        \cup { StructureOut, NamePartXyz }

\* the script's variables while a function is called on its own
Idle(where) ==
    /\ files = << >>
    /\ prefix = << >>
    /\ pc = where
    /\ fi = 0
    /\ openFiles = { }
    /\ nread = 0
    /\ eof = FALSE
    /\ hist = << >>
    /\ marks = << >>
    /\ offsets = << >>
    /\ invalid = 0
    /\ count = 0
    /\ num = 0
    /\ units = "angstrom"
    /\ coords = << >>
    /\ geometries = << >>
    /\ gi = 0
    /\ oldfilename = << >>
    /\ filename = << >>
    /\ fs = InitialFS
    /\ wrote = 0
    /\ ran = { }

mainVars == << files, prefix, fi, openFiles, nread, eof, hist, marks,
               offsets, invalid, count, num, units, coords, geometries, gi, oldfilename, filename, fs,
               wrote, ran >>

InitBasename ==
    /\ Idle("get_basename")
    /\ path \in Paths
    /\ basename = << >>
    /\ obj = Geometry(<< >>, 0, << >>)
    /\ buf = << >>

\* get_basename(path) returns
CallBasename ==
    /\ pc = "get_basename"
    /\ basename' = get_basename(path)
    /\ pc' = "return"
    /\ UNCHANGED << mainVars, path, obj, buf >>

NextBasename == CallBasename

SpecBasename == InitBasename /\ [][NextBasename]_vars

----------------------------------------------------------------------------
(* The methods of Geometry on their own *)

\* the atom strings of the objects
AtomStrings == { Atom(LiLine, "angstrom"), Atom(HLine, "au") }

\* the strings given to set_lattice and to set_section
LatticeStrings == { "", "9.0 0.0 0.0 0.0 9.0 0.0 0.0 0.0 9.0" }
SectionStrings == { "optimization" }

\* an object as Geometry.__init__ leaves it, and an empty fp
InitGeometry ==
    /\ Idle("Geometry")
    /\ path = << >>
    /\ basename = << >>
    /\ \E n \in 0..MaxAtoms : \E c \in [1..n -> AtomStrings] :
          obj = Geometry(FileA, 1, c)
    /\ buf = << >>

\* set_lattice(lattice)
set_lattice ==
    /\ \E l \in LatticeStrings : obj' = [ obj EXCEPT !.lattice = << l >> ]
    /\ UNCHANGED << mainVars, pc, path, basename, buf >>

\* set_section(section)
set_section ==
    /\ \E t \in SectionStrings : obj' = [ obj EXCEPT !.section = << t >> ]
    /\ UNCHANGED << mainVars, pc, path, basename, buf >>

\* write(fp), on an fp that holds no more than one geometry so far
write ==
    /\ Len(buf) <= MaxAtoms + 2
    /\ buf' = buf \o Geometry_write(obj)
    /\ UNCHANGED << mainVars, pc, path, basename, obj >>

NextGeometry == set_lattice \/ set_section \/ write

SpecGeometry == InitGeometry /\ [][NextGeometry]_vars


----------------------------------------------------------------------------
(* The claims *)

\* the last "/"-separated segment of p
LastSegment(p) ==
    LET slashes == { i \in 1..Len(p) : p[i] = "/" }
        start == IF slashes = { } THEN 0
                 ELSE CHOOSE i \in slashes : \A j \in slashes : j <= i
    IN  [ i \in 1..(Len(p) - start) |-> p[start + i] ]

\* s up to, and without, its first "."
BeforeFirstDot(s) ==
    LET dots == { i \in 1..Len(s) : s[i] = "." }
        stop == IF dots = { } THEN Len(s) + 1
                ELSE CHOOSE i \in dots : \A j \in dots : i <= j
    IN  [ i \in 1..(stop - 1) |-> s[i] ]

\* C7: get_basename(path) is the last "/"-separated segment of path cut at
\* its first ".": it holds neither "/" nor ".", it is the whole segment when
\* the segment has no ".", it is empty when the segment is empty or begins
\* with "."; "/a/b/structure.out" gives "structure" and "name.part.xyz"
\* gives "name".
C7_BasenameFirstDot ==
    pc = "return" =>
        LET seg == LastSegment(path)
        IN  /\ basename = BeforeFirstDot(seg)
            /\ \A i \in 1..Len(basename) : basename[i] \notin { "/", "." }
            /\ (\A i \in 1..Len(seg) : seg[i] # ".") => basename = seg
            /\ (Len(seg) = 0 \/ seg[1] = ".") => basename = << >>
            /\ path = StructureOut =>
                  basename = << "s", "t", "r", "u", "c", "t", "u", "r", "e" >>
            /\ path = NamePartXyz => basename = << "n", "a", "m", "e" >>

\* get_basename has returned "name" for "name.part.xyz"
C7_Witness ==
    /\ pc = "return"
    /\ path = NamePartXyz
    /\ basename = << "n", "a", "m", "e" >>

\* the comment line the claims expect of Geometry.write for object g, the
\* extended one being written when extended holds
CommentLine(g, extended) ==
    IF extended
    THEN << "Lattice=", g.lattice[1], " Properties=species:S:1:pos:R:3" >>
    ELSE << >>

\* a step that writes to fp writes, after what fp holds, the N+2 lines of
\* obj: N, the comment line, the N atom strings in order; and leaves obj alone
WritesXyz(extended) ==
    buf' # buf =>
        LET N == Len(obj.coords)
            out == [ i \in 1..(Len(buf') - Len(buf)) |-> buf'[Len(buf) + i] ]
        IN  /\ Len(buf') = Len(buf) + N + 2
            /\ \A i \in 1..Len(buf) : buf'[i] = buf[i]
            /\ out[1] = DecStr(N)
            /\ out[2] = CommentLine(obj, extended)
            /\ \A i \in 1..N : out[i + 2] = obj.coords[i]
            /\ obj' = obj

RECURSIVE WriteAll(_)
\* the lines of the geometries gs, each written by Geometry.write, in order
WriteAll(gs) ==
    IF gs = << >> THEN << >>
    ELSE Geometry_write(Head(gs)) \o WriteAll(Tail(gs))

\* the lines b are a run of consecutive lines of a
Contains(a, b) ==
    \E k \in 0..(Len(a) - Len(b)) :
        \A i \in 1..Len(b) : a[k + i] = b[i]

\* the geometries extracted from the input file F, in the order of the list
ExtractedFrom(F) == SelectSeq(geometries, LAMBDA g : g.source = F)

\* C1 (its statement on the content of the files): once write_together has
\* returned, for every input file F that gave a geometry the file
\* prefix + get_basename(F) + ".xyz" exists and contains the serialization
\* of every geometry extracted from F, in the order of discovery.
C1_SameSourceOneFile ==
    pc = "if_alltogether" =>
        \A j \in 1..Len(files) :
            LET own == ExtractedFrom(files[j])
                name == prefix \o get_basename(files[j]) \o DotXyz
            IN  own # << >> =>
                    /\ name \in DOMAIN fs
                    /\ Contains(fs[name], WriteAll(own))

\* C2: once write_separate has returned there is one output file per record,
\* named prefix + get_basename(source) + "_" + count on 4 digits + ".xyz",
\* and each holds exactly the serialization of its own record.
C2_OneFilePerRecord ==
    (pc = "if_together" /\ "separate" \in ran) =>
        /\ Cardinality({ SeparateName(geometries[i]) :
                             i \in 1..Len(geometries) }) = Len(geometries)
        /\ \A i \in 1..Len(geometries) :
              /\ SeparateName(geometries[i]) \in DOMAIN fs
              /\ fs[SeparateName(geometries[i])] =
                     Geometry_write(geometries[i])

\* a step of write_all_together creates or changes no file but its own
TouchesOneFile ==
    pc \in { "if_alltogether", "alltogether" } =>
        /\ DOMAIN fs' \subseteq DOMAIN fs \cup { AllTogetherName }
        /\ \A n \in DOMAIN fs \ { AllTogetherName } :
              n \in DOMAIN fs' /\ fs'[n] = fs[n]

\* C3: write_all_together writes one file only, prefix + ".xyz": no step of
\* it creates or changes another file; while it runs the file holds the
\* serializations of the geometries taken so far, in list order, and nothing
\* of what it held before the call; when it has returned the file exists and
\* holds those of all the geometries, none when the list is empty.
C3_AllTogether ==
    /\ [](pc = "alltogether" =>
            /\ AllTogetherName \in DOMAIN fs
            /\ fs[AllTogetherName] = WriteAll(SubSeq(geometries, 1, gi)))
    /\ []((pc = "done" /\ "alltogether" \in ran) =>
            /\ AllTogetherName \in DOMAIN fs
            /\ fs[AllTogetherName] = WriteAll(geometries))
    /\ [][TouchesOneFile]_vars

\* write_all_together has returned, called without --prefix on two
\* geometries: ".xyz" holds the two serializations and not the stale line
C3_Witness ==
    /\ pc = "done"
    /\ "alltogether" \in ran
    /\ prefix = << >>
    /\ Len(geometries) = 2
    /\ InitialFS[DotXyz] = Stale
    /\ fs[DotXyz] = Geometry_write(geometries[1])
                        \o Geometry_write(geometries[2])

\* the number of the input file that record i of the list belongs to: the
\* last file opened while the list was shorter than i
FileOf(i) ==
    CHOOSE j \in 1..Len(offsets) :
        /\ offsets[j] < i
        /\ \A k \in 1..Len(offsets) : offsets[k] < i => k <= j

\* C4: the list of run_extractor is ordered by input file in argument order
\* and within a file by discovery: record i carries the name of its input
\* file and, as count, its rank among the records of that file, so counts
\* restart at 1 with every input file, a file named twice included, and
\* count is the number of marker lines detected in the open file.
C4_OrderAndCounts ==
    /\ Len(offsets) = fi
    /\ \A j \in 1..(fi - 1) : offsets[j] <= offsets[j + 1]
    /\ \A i \in 1..Len(geometries) :
          /\ offsets[1] < i
          /\ geometries[i].source = files[FileOf(i)]
          /\ geometries[i].count = i - offsets[FileOf(i)]
    /\ pc \in { "scan", "skip", "block" } =>
          /\ count = Len(marks)
          /\ Len(geometries) - offsets[fi] =
                 IF pc = "scan" THEN count ELSE count - 1

\* run_extractor is about to return two records of its second input file,
\* with counts 1 and 2, the first input file having given none
C4_Witness ==
    /\ pc = "for_file"
    /\ fi = 2
    /\ Len(files) = 2
    /\ files[1] # files[2]
    /\ offsets = << 0, 0 >>
    /\ Len(geometries) = 2
    /\ geometries[2].source = files[2]
    /\ geometries[1].count = 1
    /\ geometries[2].count = 2

\* C5: once a coordinate line of neither 0 nor 6 tokens has been read the
\* program has ended: the file it was read from is the last one opened, no
\* file is open, run_extractor has not returned, no writer has been called
\* and the output files are as they were; and no writer is called and no
\* output file is touched before run_extractor has been through all files.
C5_AbortBeforeOutput ==
    /\ invalid # 0 =>
          /\ pc = "sys.exit"
          /\ fi = invalid
          /\ openFiles = { }
          /\ ran = { }
          /\ fs = InitialFS
    /\ (ran # { } \/ fs # InitialFS) =>
          /\ fi = Len(files)
          /\ pc \notin { "for_file", "scan", "skip", "block", "sys.exit",
                         "ValueError" }

\* the program has ended on a malformed line of the second of three input
\* files, after a geometry of the first one
C5_Witness ==
    /\ pc = "sys.exit"
    /\ invalid = 2
    /\ Len(files) = 3
    /\ Len(geometries) = 1
    /\ fs = InitialFS

\* the first record of the last maximal run of consecutive records up to
\* record i that write_together gives the file name of record i
RunStart(i) ==
    CHOOSE k \in 1..i :
        /\ \A m \in k..i :
              TogetherName(geometries[m]) = TogetherName(geometries[i])
        /\ k > 1 =>
              TogetherName(geometries[k - 1]) # TogetherName(geometries[i])

OpenOutputs == { f \in openFiles : f.mode # "r" }

\* at most one file is open, and in the loops of write_separate and of
\* write_together the file object holds no record on opening, one when it
\* is closed, and is closed before the loop goes on
OneRecordPerOpen ==
    /\ Cardinality(openFiles) <= 1
    /\ pc \in { "separate_write", "together_write" } =>
          wrote = 0 /\ OpenOutputs = openFiles /\ Cardinality(openFiles) = 1
    /\ pc \in { "separate_close", "together_close" } =>
          wrote = 1 /\ OpenOutputs = openFiles /\ Cardinality(openFiles) = 1
    /\ pc \in { "separate", "together" } =>
          openFiles = { } /\ (gi > 0 => wrote = 1)
    /\ pc \in { "for_file", "prefix", "if_separate", "if_together",
                "if_alltogether", "done", "sys.exit", "ValueError" } =>
          openFiles = { }
    /\ pc \in { "scan", "skip", "block" } => openFiles = { InputFile(fi) }

\* C10 as stated: through every output file object, of any of the three
\* writers, exactly one record is written before it is closed, no output
\* file is held open across records, and at most one file is open.
C10_AsStated ==
    /\ OneRecordPerOpen
    /\ pc = "alltogether" => wrote <= 1
    /\ (pc = "done" /\ "alltogether" \in ran) => wrote = 1

\* C10 amended: through every output file object of write_separate and of
\* write_together exactly one record is written before it is closed, and it
\* is closed before the next record is written or another file is opened;
\* write_all_together holds its one file object open across all the records
\* and writes each of them through it; at most one file, input or output, is
\* open at any moment.
C10_OneFileOpen ==
    /\ OneRecordPerOpen
    /\ pc = "alltogether" =>
          /\ wrote = gi
          /\ openFiles = { [ mode |-> "w", name |-> AllTogetherName ] }
    /\ (pc = "done" /\ "alltogether" \in ran) => wrote = Len(geometries)

\* write_all_together has written two records through its open file object,
\* after write_separate and write_together have run
C10_Witness ==
    /\ pc = "alltogether"
    /\ ran = { "separate", "together", "alltogether" }
    /\ wrote = 2
    /\ Cardinality(openFiles) = 1

\* line l starts with one of the two marker phrases
IsMarker(l) == StartsWith(l, AngstromsMarker) \/ StartsWith(l, AuMarker)

\* the units the marker line l stands for
UnitsOf(l) == IF StartsWith(l, AngstromsMarker) THEN "angstrom" ELSE "au"

\* the line that ends the coordinate block of the marker at line m: the
\* first empty line from line m+4 on, and the end of the stream if none
BlockEndOf(m) ==
    LET blanks == { i \in (m + 4)..Len(hist) : hist[i] = << >> }
    IN  IF blanks = { } THEN Len(hist) + 1
        ELSE CHOOSE i \in blanks : \A j \in blanks : i <= j

\* the lines from line a on hold no marker line
NoMarkerFrom(a) == \A i \in a..Len(hist) : ~IsMarker(hist[i])

\* C9: every line is read once; a marker line is detected iff it is the
\* first marker line of the file or the first one after the line that ended
\* the block before, so the 3 lines after a marker line and the lines of a
\* block are never taken as markers; the atoms of a record are the lines
\* from the 4th after its marker up to, and without, the first empty line or
\* the end of the stream, one entry each and in order; a record whose stream
\* ends within or right after the 3 skipped lines exists and has no atoms.
C9_BlockLayout ==
    /\ pc # "prefix" => Len(hist) = nread
    /\ pc \in { "scan", "for_file", "prefix" } =>
          /\ Len(geometries) = Len(marks)
          /\ NoMarkerFrom(IF marks = << >> THEN 1
                          ELSE BlockEndOf(marks[Len(marks)]) + 1)
    /\ pc \in { "skip", "block" } => Len(geometries) = Len(marks) - 1
    /\ \A k \in 1..Len(marks) :
          LET prev == IF k = 1 THEN 0 ELSE BlockEndOf(marks[k - 1])
          IN  /\ marks[k] > prev
              /\ IsMarker(hist[marks[k]])
              /\ \A i \in (prev + 1)..(marks[k] - 1) : ~IsMarker(hist[i])
    /\ \A k \in 1..Len(geometries) :
          LET first == marks[k] + 4
              end == BlockEndOf(marks[k])
              atoms == geometries[k].coords
          IN  /\ Len(atoms) = IF end > first THEN end - first ELSE 0
              /\ \A i \in 1..Len(atoms) :
                    atoms[i] = Atom(hist[first + i - 1],
                                    UnitsOf(hist[marks[k]]))

\* a record of one atom has been read whose second skipped line was a marker
\* line, and the empty line after the atom has been consumed
C9_Witness ==
    /\ pc = "scan"
    /\ Len(hist) = 6
    /\ marks = << 1 >>
    /\ IsMarker(hist[3])
    /\ hist[6] = << >>
    /\ Len(geometries) = 1
    /\ geometries[1].coords = << Atom(hist[5], UnitsOf(hist[1])) >>

====
